---- MODULE Spec2Model ----
\* A model of ppapi/cpp/completion_callback.h: CompletionCallback,
\* CompletionCallbackFactory<T>, its BackPointer (the reference-counted
\* indirection cell) and CallbackImpl (the single-use callback bound to a
\* method of T).
EXTENDS Integers, Sequences, FiniteSets, TLC

\* ---------------------------------------------------------------- bounds

\* How many BackPointer objects one run allocates (one at construction, one
\* per CancelAll).
MaxTokens == 3

\* How many CallbackImpl objects one run allocates (one per NewCallback).
MaxHandles == 2

\* ---------------------------------------------------------------- values

\* Pointer values are tuples; the null pointer is the empty one.
NULL == <<>>

\* Identities of heap objects. An identity names one allocation: `new` never
\* returns an object that already exists.
TokenIds == {<<"BackPointer", i>> : i \in 1..MaxTokens}
HandleIds == {<<"CallbackImpl", i>> : i \in 1..MaxHandles}

\* The T* values a caller may pass to the constructor (line 100: the default
\* argument is NULL).
Objects == {NULL, <<"O">>}

\* The `this` pointer of the factory, as stored in BackPointer::factory_.
FactoryPtr == <<"this">>

\* Method: pointers to member functions void (T::*)(int32_t).
Methods == {<<"&T::DidCompleteIO">>, <<"&T::DidOpen">>}

\* int32_t result codes: an error, PP_OK and a byte count.
Results == {-1, 0, 7}

\* The one ThunkType function the file defines.
ThunkFn == <<"&CallbackImpl::Thunk">>

VARIABLES
  ndebug,        \* TRUE when the build defines NDEBUG (PP_DCHECK compiled out)
  fstate,        \* "none" | "alive" | "destroyed" | "aborted" (PP_DCHECK),
                 \* and after a misuse "crashed" | "undefined"
  object_,       \* CompletionCallbackFactory::object_
  back_pointer_, \* CompletionCallbackFactory::back_pointer_
  bps,           \* the BackPointer objects: TokenIds -> record
  handles,       \* the CallbackImpl objects: HandleIds -> record
  pending,       \* PP_CompletionCallback values held by the operation starter
  calls,         \* the calls of bound methods made so far, in order
  lastOp         \* the operation that produced this state

vars == <<ndebug, fstate, object_, back_pointer_, bps, handles, pending, calls, lastOp>>

\* ---------------------------------------------------------------- heap

UnallocBP == [state |-> "unalloc", ref_ |-> 0, factory_ |-> NULL]
FreedBP == [state |-> "freed", ref_ |-> 0, factory_ |-> NULL]

UnallocCB == [state |-> "unalloc", thunk_ |-> NULL, back_pointer_ |-> NULL, method_ |-> NULL]
FreedCB == [state |-> "freed", thunk_ |-> NULL, back_pointer_ |-> NULL, method_ |-> NULL]

\* operator new: the next object that was never allocated.
NewBP(heap) == CHOOSE p \in TokenIds :
                 /\ heap[p].state = "unalloc"
                 /\ \A q \in TokenIds : heap[q].state = "unalloc" => p[2] <= q[2]

NewCB(hs) == CHOOSE h \in HandleIds :
               /\ hs[h].state = "unalloc"
               /\ \A g \in HandleIds : hs[g].state = "unalloc" => h[2] <= g[2]

CanNewBP(heap) == \E p \in TokenIds : heap[p].state = "unalloc"
CanNewCB(hs) == \E h \in HandleIds : hs[h].state = "unalloc"

LiveHandles == {h \in HandleIds : handles[h].state = "live"}
LiveTokens == {p \in TokenIds : bps[p].state = "live"}

\* ---------------------------------------------------------------- BackPointer

\* BackPointer(): the only constructor the class declares. It takes no
\* factory and stores none.
BackPointer_Ctor == [state |-> "live", ref_ |-> 0, factory_ |-> NULL]

BackPointer_AddRef(heap, p) == [heap EXCEPT ![p].ref_ = @ + 1]

\* Mutant: Release counts down and never deletes.
BackPointer_Release_NoDelete(heap, p) == [heap EXCEPT ![p].ref_ = @ - 1]

\* if (--ref_ == 0) delete this;
BackPointer_Release(heap, p) ==
  IF heap[p].ref_ - 1 = 0
    THEN [heap EXCEPT ![p] = FreedBP]
    ELSE [heap EXCEPT ![p].ref_ = @ - 1]

BackPointer_DropFactory(heap, p) == [heap EXCEPT ![p].factory_ = NULL]

\* CompletionCallbackFactory::GetObject
Factory_GetObject == object_

\* Mutant: the null test on factory_ is inverted.
BackPointer_GetObject_Inverted(p) ==
  IF bps[p].factory_ = NULL THEN Factory_GetObject ELSE NULL

\* Mutant: the null test on factory_ is missing.
BackPointer_GetObject_NoTest(p) == Factory_GetObject

\* return factory_ ? factory_->GetObject() : NULL;
BackPointer_GetObject(p) ==
  IF bps[p].factory_ # NULL THEN Factory_GetObject ELSE NULL

\* ---------------------------------------------------------------- factory

\* Mutant: the factory takes no reference on the BackPointer it builds.
InitBackPointer_NoAddRef(heap) ==
  LET p == NewBP(heap)
  IN  [bps |-> [heap EXCEPT ![p] = BackPointer_Ctor], back_pointer_ |-> p]

\* back_pointer_ = new BackPointer(this); back_pointer_->AddRef();
\* The argument has no constructor parameter to receive it: the object is
\* the one BackPointer() builds. Gives the new heap and the new back_pointer_.
InitBackPointer(heap) ==
  LET p == NewBP(heap)
  IN  [bps |-> BackPointer_AddRef([heap EXCEPT ![p] = BackPointer_Ctor], p),
       back_pointer_ |-> p]

\* back_pointer_->DropFactory(); back_pointer_->Release();
ResetBackPointer(heap, p) ==
  BackPointer_Release(BackPointer_DropFactory(heap, p), p)

\* ---------------------------------------------------------------- CallbackImpl

\* CallbackImpl(back_pointer, method): stores both and takes a reference.
CallbackImpl_Ctor(back_pointer, method) ==
  [state |-> "live", thunk_ |-> ThunkFn, back_pointer_ |-> back_pointer,
   method_ |-> method]

\* Mutant: the destructor keeps its reference.
CallbackImpl_Dtor_NoRelease(heap, self) == heap

\* Mutant: the destructor releases the factory's current BackPointer instead
\* of the callback's own.
CallbackImpl_Dtor_ReleasesCurrent(heap, self) ==
  BackPointer_Release(heap, back_pointer_)

\* ~CallbackImpl(): back_pointer_->Release()
CallbackImpl_Dtor(heap, self) ==
  BackPointer_Release(heap, handles[self].back_pointer_)

\* Mutant: Thunk returns early, without `delete self`, when no object is
\* resolved.
CallbackImpl_Thunk_EarlyReturn(user_data, result) ==
  LET self == user_data
      object == BackPointer_GetObject(handles[self].back_pointer_)
  IN  IF object = NULL
        THEN [calls |-> calls, bps |-> bps, handles |-> handles]
        ELSE [calls |-> Append(calls, [object |-> object,
                                       method |-> handles[self].method_,
                                       result |-> result,
                                       self |-> self]),
              bps |-> BackPointer_Release(bps, handles[self].back_pointer_),
              handles |-> [handles EXCEPT ![self] = FreedCB]]

\* Mutant: Thunk looks at the result code and keeps the callback alive on an
\* error.
CallbackImpl_Thunk_KeepsOnError(user_data, result) ==
  LET self == user_data
      object == BackPointer_GetObject(handles[self].back_pointer_)
      cs == IF object # NULL
              THEN Append(calls, [object |-> object,
                                  method |-> handles[self].method_,
                                  result |-> result,
                                  self |-> self])
              ELSE calls
  IN  IF result < 0
        THEN [calls |-> cs, bps |-> bps, handles |-> handles]
        ELSE [calls |-> cs,
              bps |-> BackPointer_Release(bps, handles[self].back_pointer_),
              handles |-> [handles EXCEPT ![self] = FreedCB]]

\* static void Thunk(void* user_data, int32_t result): the state it leaves.
CallbackImpl_Thunk(user_data, result) ==
  LET self == user_data
      object == BackPointer_GetObject(handles[self].back_pointer_)
  IN  [calls |-> IF object # NULL
                   THEN Append(calls, [object |-> object,
                                       method |-> handles[self].method_,
                                       result |-> result,
                                       self |-> self])
                   ELSE calls,
       bps |-> CallbackImpl_Dtor(bps, self),
       handles |-> [handles EXCEPT ![self] = FreedCB]]

\* A call through a ThunkType function pointer.
CallThunk(func, user_data, result) ==
  IF func = ThunkFn
    THEN CallbackImpl_Thunk(user_data, result)
    ELSE [calls |-> calls, bps |-> bps, handles |-> handles]

\* ---------------------------------------------------------------- CompletionCallback

\* PP_BlockUntilComplete() of ppapi/c/pp_completion_callback.h: the reserved
\* pair that asks the operation starter to wait synchronously.
PP_BlockUntilComplete == [func |-> NULL, user_data |-> NULL]

\* Mutant: ToPP answers the block-until-complete pair for every callback.
ToPP_AlwaysBlock(cc) == PP_BlockUntilComplete

\* Mutant: ToPP without the null test builds a pair around the null pointer.
ToPP_NoNullTest(cc) == [func |-> ThunkFn, user_data |-> cc]

\* static PP_CompletionCallback ToPP(CompletionCallback* cc)
ToPP(cc) ==
  IF cc = NULL
    THEN PP_BlockUntilComplete
    ELSE [func |-> handles[cc].thunk_, user_data |-> cc]

\* void Run(int32_t result) { thunk_(this, result); }
CompletionCallback_Run(self, result) ==
  CallThunk(handles[self].thunk_, self, result)

\* The operation starter completing an operation: it calls the pair it holds.
PP_RunCompletionCallback(pp, result) ==
  CallThunk(pp.func, pp.user_data, result)

\* PP_DCHECK(object_) of ppapi/cpp/logging.h: fatal in a debug build,
\* compiled out otherwise.
PP_DCHECK_Fails(cond) == ~ndebug /\ ~cond

\* ---------------------------------------------------------------- actions

Init ==
  /\ ndebug \in BOOLEAN
  /\ fstate = "none"
  /\ object_ = NULL
  /\ back_pointer_ = NULL
  /\ bps = [p \in TokenIds |-> UnallocBP]
  /\ handles = [h \in HandleIds |-> UnallocCB]
  /\ pending = {}
  /\ calls = <<>>
  /\ lastOp = [op |-> "Init", h |-> NULL, r |-> 0]

\* Mutant: the constructor without its PP_DCHECK.
Construct_NoCheck(object) ==
  /\ fstate = "none"
  /\ object_' = object
  /\ fstate' = "alive"
  /\ bps' = InitBackPointer(bps).bps
  /\ back_pointer_' = InitBackPointer(bps).back_pointer_
  /\ lastOp' = [op |-> "Construct", h |-> NULL, r |-> 0]
  /\ UNCHANGED <<ndebug, handles, pending, calls>>

\* explicit CompletionCallbackFactory(T* object = NULL)
Construct(object) ==
  /\ fstate = "none"
  /\ object_' = object
  /\ IF PP_DCHECK_Fails(object # NULL)
       THEN /\ fstate' = "aborted"
            /\ UNCHANGED <<back_pointer_, bps>>
       ELSE /\ fstate' = "alive"
            /\ bps' = InitBackPointer(bps).bps
            /\ back_pointer_' = InitBackPointer(bps).back_pointer_
  /\ lastOp' = [op |-> "Construct", h |-> NULL, r |-> 0]
  /\ UNCHANGED <<ndebug, handles, pending, calls>>

\* Mutant: the destructor walks the callbacks minted on its BackPointer and
\* deletes them.
Destroy_DeletesCallbacks ==
  /\ fstate = "alive"
  /\ fstate' = "destroyed"
  /\ handles' = [h \in HandleIds |->
                   IF handles[h].back_pointer_ = back_pointer_
                     THEN FreedCB ELSE handles[h]]
  /\ bps' = [bps EXCEPT ![back_pointer_] = FreedBP]
  /\ lastOp' = [op |-> "Destroy", h |-> NULL, r |-> 0]
  /\ UNCHANGED <<ndebug, object_, back_pointer_, pending, calls>>

\* ~CompletionCallbackFactory()
Destroy ==
  /\ fstate = "alive"
  /\ fstate' = "destroyed"
  /\ bps' = ResetBackPointer(bps, back_pointer_)
  /\ lastOp' = [op |-> "Destroy", h |-> NULL, r |-> 0]
  /\ UNCHANGED <<ndebug, object_, back_pointer_, handles, pending, calls>>

\* Mutant: CancelAll resets and builds no new BackPointer.
CancelAllEffect_NoInit ==
  [bps |-> ResetBackPointer(bps, back_pointer_), back_pointer_ |-> back_pointer_]

\* void CancelAll() { ResetBackPointer(); InitBackPointer(); }
CancelAllEffect ==
  InitBackPointer(ResetBackPointer(bps, back_pointer_))

CancelAll ==
  /\ fstate = "alive"
  /\ CanNewBP(bps)
  /\ bps' = CancelAllEffect.bps
  /\ back_pointer_' = CancelAllEffect.back_pointer_
  /\ lastOp' = [op |-> "CancelAll", h |-> NULL, r |-> 0]
  /\ UNCHANGED <<ndebug, fstate, object_, handles, pending, calls>>

\* Mutant: the new callback takes no reference on the BackPointer.
NewCallbackEffect_NoAddRef(method) ==
  LET h == NewCB(handles)
  IN  [handles |-> [handles EXCEPT ![h] = CallbackImpl_Ctor(back_pointer_, method)],
       bps |-> bps,
       h |-> h]

\* CompletionCallback* NewCallback(Method method)
NewCallbackEffect(method) ==
  LET h == NewCB(handles)
  IN  [handles |-> [handles EXCEPT ![h] = CallbackImpl_Ctor(back_pointer_, method)],
       bps |-> BackPointer_AddRef(bps, back_pointer_),
       h |-> h]

NewCallback(method) ==
  /\ fstate = "alive"
  /\ CanNewCB(handles)
  /\ handles' = NewCallbackEffect(method).handles
  /\ bps' = NewCallbackEffect(method).bps
  /\ lastOp' = [op |-> "NewCallback", h |-> NewCallbackEffect(method).h, r |-> 0]
  /\ UNCHANGED <<ndebug, fstate, object_, back_pointer_, pending, calls>>

\* The caller runs a callback it still owns: cc->Run(rv).
Run(h, r) ==
  /\ fstate \in {"alive", "destroyed"}
  /\ handles[h].state = "live"
  /\ \A pp \in pending : pp.user_data # h
  /\ calls' = CompletionCallback_Run(h, r).calls
  /\ bps' = CompletionCallback_Run(h, r).bps
  /\ handles' = CompletionCallback_Run(h, r).handles
  /\ lastOp' = [op |-> "Run", h |-> h, r |-> r]
  /\ UNCHANGED <<ndebug, fstate, object_, back_pointer_, pending>>

\* The caller starts an operation with ToPP(cc) and the starter answers
\* PP_Error_WouldBlock: it keeps the pair until the operation completes. For
\* the block-until-complete pair it keeps nothing.
StartOp(cc) ==
  /\ fstate \in {"alive", "destroyed"}
  /\ cc # NULL => /\ handles[cc].state = "live"
                  /\ \A pp \in pending : pp.user_data # cc
  /\ pending' = IF ToPP(cc) = PP_BlockUntilComplete
                  THEN pending
                  ELSE pending \cup {ToPP(cc)}
  /\ lastOp' = [op |-> "StartOp", h |-> cc, r |-> 0]
  /\ UNCHANGED <<ndebug, fstate, object_, back_pointer_, bps, handles, calls>>

\* The operation completes: the starter calls the pair once and forgets it.
Complete(pp, r) ==
  /\ fstate \in {"alive", "destroyed"}
  /\ pp \in pending
  /\ pending' = pending \ {pp}
  /\ calls' = PP_RunCompletionCallback(pp, r).calls
  /\ bps' = PP_RunCompletionCallback(pp, r).bps
  /\ handles' = PP_RunCompletionCallback(pp, r).handles
  /\ lastOp' = [op |-> "Complete", h |-> pp.user_data, r |-> r]
  /\ UNCHANGED <<ndebug, fstate, object_, back_pointer_>>

Next ==
  \/ \E object \in Objects : Construct(object)
  \/ Destroy
  \/ CancelAll
  \/ \E method \in Methods : NewCallback(method)
  \/ \E h \in HandleIds, r \in Results : Run(h, r)
  \/ \E cc \in HandleIds \cup {NULL} : StartOp(cc)
  \/ \E pp \in pending, r \in Results : Complete(pp, r)

Spec == Init /\ [][Next]_vars

\* ---------------------------------------------------------------- Thunk, line by line

\* CallbackImpl* self = static_cast<CallbackImpl*>(user_data);
\* T* object = self->back_pointer_->GetObject();
Thunk_Resolve(st, self) ==
  LET p == st.handles[self].back_pointer_
  IN  [st EXCEPT !.object = IF st.bps[p].factory_ # NULL
                              THEN Factory_GetObject ELSE NULL]

\* if (object) (object->*(self->method_))(result);
Thunk_CallIfObject(st, self, result) ==
  IF st.object # NULL
    THEN [st EXCEPT !.calls = Append(@, [object |-> st.object,
                                         method |-> st.handles[self].method_,
                                         result |-> result,
                                         self |-> self])]
    ELSE st

\* delete self;  (~CallbackImpl releases the BackPointer)
Thunk_DeleteSelf(st, self) ==
  [st EXCEPT !.bps = BackPointer_Release(@, st.handles[self].back_pointer_),
             !.handles = [@ EXCEPT ![self] = FreedCB]]

\* Mutant: Thunk deletes self before it calls the method.
ThunkSteps_DeleteBeforeCall(user_data, result) ==
  LET s0 == [calls |-> calls, bps |-> bps, handles |-> handles, object |-> NULL]
      s1 == Thunk_Resolve(s0, user_data)
      s2 == Thunk_DeleteSelf(s1, user_data)
      s3 == Thunk_CallIfObject(s2, user_data, result)
  IN  <<s1, s2, s3>>

\* The states Thunk passes through: after line 173, after line 175 and
\* after line 176.
ThunkSteps(user_data, result) ==
  LET s0 == [calls |-> calls, bps |-> bps, handles |-> handles, object |-> NULL]
      s1 == Thunk_Resolve(s0, user_data)
      s2 == Thunk_CallIfObject(s1, user_data, result)
      s3 == Thunk_DeleteSelf(s2, user_data)
  IN  <<s1, s2, s3>>

\* ---------------------------------------------------------------- misuse

\* Run (or the pair of ToPP) used on a callback that was already run: `this`
\* points to a deleted CallbackImpl. Neither Run (lines 22-24) nor Thunk
\* (lines 171-177) tests for it, so the behaviour is undefined. Either the
\* access faults, or the bytes of the deleted object are still there and
\* Thunk runs on them a second time: it resolves the BackPointer they name
\* (the deleted object's back_pointer_ is indeterminate; it is drawn from the
\* BackPointers still allocated), calls the method if an object is resolved,
\* and releases that BackPointer again. After the second `delete self` the
\* heap is in no defined state and the run is followed no further.
RunAgain(h, r) ==
  /\ fstate \in {"alive", "destroyed"}
  /\ handles[h].state = "freed"
  /\ \/ /\ fstate' = "crashed"
        /\ UNCHANGED <<bps, calls>>
     \/ \E p \in LiveTokens, method \in Methods :
          /\ fstate' = "undefined"
          /\ calls' = IF BackPointer_GetObject(p) # NULL
                        THEN Append(calls, [object |-> BackPointer_GetObject(p),
                                            method |-> method,
                                            result |-> r,
                                            self |-> h])
                        ELSE calls
          /\ bps' = BackPointer_Release(bps, p)
  /\ lastOp' = [op |-> "RunAgain", h |-> h, r |-> r]
  /\ UNCHANGED <<ndebug, object_, back_pointer_, handles, pending>>

NextMisuse ==
  \/ Next
  \/ \E h \in HandleIds, r \in Results : RunAgain(h, r)

\* The program with callers that may run a callback twice.
SpecMisuse == Init /\ [][NextMisuse]_vars

\* ---------------------------------------------------------------- claims

\* A step of the file's delivery path: Run by the caller, or the operation
\* starter calling the pair ToPP gave it.
IsInvoke(op) == op \in {"Run", "Complete"}

\* The call of the bound method that invoking h with r is to make.
CallOf(h, r) ==
  [object |-> object_, method |-> handles[h].method_, result |-> r, self |-> h]

\* How many calls of bound methods handle h has caused.
CallCount(cs, h) == Len(SelectSeq(cs, LAMBDA c : c.self = h))

\* The BackPointer objects built so far, freed or not.
TokensBuilt == {p \in TokenIds : bps[p].state # "unalloc"}

\* C1: a callback minted by the factory and invoked with r while the factory
\* is alive and no CancelAll came after the mint (its BackPointer is still the
\* factory's) calls the bound method of the owning object exactly once, with r.
C1_InvokeDeliversOnce ==
  [][\A h \in HandleIds :
       (/\ IsInvoke(lastOp'.op) /\ lastOp'.h = h
        /\ fstate = "alive" /\ object_ # NULL
        /\ handles[h].back_pointer_ = back_pointer_)
       => /\ calls' = Append(calls, CallOf(h, lastOp'.r))
          /\ CallCount(calls', h) = 1]_vars

\* C2: once the factory is destroyed, invoking any callback it minted calls
\* no bound method; the step only destroys the callback (and gives up its
\* reference).
C2_NoDeliveryAfterDestroy ==
  [][\A h \in HandleIds :
       (IsInvoke(lastOp'.op) /\ lastOp'.h = h /\ fstate = "destroyed")
       => /\ calls' = calls
          /\ handles' = [handles EXCEPT ![h] = FreedCB]
          /\ \A p \in TokenIds \ {handles[h].back_pointer_} : bps'[p] = bps[p]
          /\ <<fstate', object_', back_pointer_'>> = <<fstate, object_, back_pointer_>>]_vars

\* C2 witness: a callback was invoked after the destruction while another,
\* minted under a different BackPointer, is still outstanding.
C2_Witness ==
  /\ fstate = "destroyed"
  /\ IsInvoke(lastOp.op)
  /\ \E g \in LiveHandles : handles[g].back_pointer_ # back_pointer_

\* C3: after a CancelAll, a callback minted before it delivers nothing when
\* invoked, and a callback minted after it (no further CancelAll, factory
\* alive) delivers its result code to the bound method.
C3_CancelAllSplitsDelivery ==
  [][\A h \in HandleIds :
       (/\ IsInvoke(lastOp'.op) /\ lastOp'.h = h
        /\ fstate = "alive" /\ object_ # NULL
        /\ Cardinality(TokensBuilt) > 1)
       => IF handles[h].back_pointer_ = back_pointer_
            THEN calls' = Append(calls, CallOf(h, lastOp'.r))
            ELSE calls' = calls]_vars

\* C4: once the factory is destroyed and every callback it minted has been
\* invoked, every BackPointer ever built has been freed.
C4_NoTokenLeak ==
  (fstate = "destroyed" /\ LiveHandles = {})
    => \A p \in TokenIds : bps[p].state \in {"unalloc", "freed"}

\* C4 witness: the factory is gone, callbacks of two generations were minted
\* and all were invoked.
C4_Witness ==
  /\ fstate = "destroyed"
  /\ LiveHandles = {}
  /\ Cardinality(TokensBuilt) >= 2
  /\ Cardinality({h \in HandleIds : handles[h].state = "freed"}) >= 2

\* C5: invoking a callback always consumes it, target live or gone: the
\* callback is destroyed and its BackPointer loses exactly one reference
\* (and is freed when that was the last one).
C5_InvokeConsumes ==
  [][\A h \in HandleIds :
       (IsInvoke(lastOp'.op) /\ lastOp'.h = h)
       => LET p == handles[h].back_pointer_
          IN  /\ handles[h].state = "live"
              /\ handles'[h].state = "freed"
              /\ IF bps[p].ref_ = 1
                   THEN bps'[p].state = "freed"
                   ELSE bps'[p] = [bps[p] EXCEPT !.ref_ = @ - 1]
              /\ \A q \in TokenIds \ {p} : bps'[q] = bps[q]]_vars

\* C5 witness: a callback whose BackPointer was cancelled was run by the
\* caller while the factory lives on.
C5_Witness ==
  /\ lastOp.op = "Run"
  /\ fstate = "alive"
  /\ handles[lastOp.h].state = "freed"
  /\ \E p \in TokenIds : bps[p].state = "freed"
\* C6: a BackPointer stays allocated while the live factory holds it as its
\* current one or an outstanding callback points to it: neither Destroy nor
\* CancelAll frees a token a callback will still dereference, and invoking
\* callbacks never frees the token the factory mints with.
C6_TokenOutlivesUsers ==
  /\ fstate = "alive" => bps[back_pointer_].state = "live"
  /\ \A h \in LiveHandles : bps[handles[h].back_pointer_].state = "live"

\* C6 witness: the factory was destroyed with a callback outstanding, whose
\* BackPointer is still allocated, while another BackPointer has been freed.
C6_Witness ==
  /\ lastOp.op = "Destroy"
  /\ \E h \in LiveHandles : bps[handles[h].back_pointer_].state = "live"
  /\ \E p \in TokenIds : bps[p].state = "freed"

\* C7: from construction to destruction the factory has exactly one current
\* BackPointer, an allocated one; only construction and CancelAll change it;
\* every callback is minted on the current one; CancelAll makes current a
\* BackPointer that did not exist before, with no callback bound to it.
C7_OneCurrentToken ==
  [][/\ fstate' = "alive" => /\ back_pointer_' \in TokenIds
                             /\ bps'[back_pointer_'].state = "live"
     /\ lastOp'.op \notin {"Construct", "CancelAll"} => back_pointer_' = back_pointer_
     /\ lastOp'.op = "NewCallback" =>
          /\ handles[lastOp'.h].state = "unalloc"
          /\ handles'[lastOp'.h].state = "live"
          /\ handles'[lastOp'.h].back_pointer_ = back_pointer_
     /\ lastOp'.op = "CancelAll" =>
          /\ back_pointer_' # back_pointer_
          /\ bps[back_pointer_'].state = "unalloc"
          /\ \A h \in HandleIds : handles'[h].back_pointer_ # back_pointer_']_vars

\* C7 witness: a callback was just minted on the current BackPointer while a
\* callback of an earlier generation is outstanding on another one.
C7_Witness ==
  /\ lastOp.op = "NewCallback"
  /\ handles[lastOp.h].back_pointer_ = back_pointer_
  /\ \E g \in LiveHandles : handles[g].back_pointer_ # back_pointer_

\* C8 as stated: constructing a factory with a null owner fails fatally, so
\* no factory with a null owner exists that can mint, and no callback is bound
\* to a factory whose owner is null.
C8_NullOwnerAlwaysFatal ==
  /\ (lastOp.op = "Construct" /\ object_ = NULL) => fstate = "aborted"
  /\ ~(fstate = "alive" /\ object_ = NULL)
  /\ \A h \in HandleIds : handles[h].state # "unalloc" => object_ # NULL

\* C8 as amended: in a build where PP_DCHECK is active (no NDEBUG),
\* constructing a factory with a null owner fails fatally, so in such a build
\* no factory with a null owner exists that can mint, and no callback is bound
\* to a factory whose owner is null.
C8_NullOwnerFatalInDebug ==
  ~ndebug =>
    /\ (lastOp.op = "Construct" /\ object_ = NULL) => fstate = "aborted"
    /\ ~(fstate = "alive" /\ object_ = NULL)
    /\ \A h \in HandleIds : handles[h].state # "unalloc" => object_ # NULL

\* C8 witness: a debug build called the constructor with NULL and stopped.
C8_Witness ==
  /\ ~ndebug
  /\ lastOp.op = "Construct"
  /\ object_ = NULL
  /\ fstate = "aborted"

\* C9: CancelAll and destruction leave every callback as it is (the set of
\* outstanding callbacks, each one's BackPointer and method), the pairs the
\* operation starter holds and every other BackPointer that exists; they
\* change only the old current BackPointer (factory_ dropped, one reference
\* fewer, freed at zero) and the factory's back_pointer_.
C9_CancelTouchesNoHandle ==
  [][lastOp'.op \in {"CancelAll", "Destroy"} =>
       /\ handles' = handles
       /\ pending' = pending
       /\ calls' = calls
       /\ object_' = object_
       /\ bps'[back_pointer_] =
            IF bps[back_pointer_].ref_ = 1
              THEN FreedBP
              ELSE [bps[back_pointer_] EXCEPT !.factory_ = NULL, !.ref_ = @ - 1]
       /\ \A p \in TokensBuilt \ {back_pointer_} : bps'[p] = bps[p]
       /\ lastOp'.op = "Destroy" =>
            \A p \in TokenIds \ {back_pointer_} : bps'[p] = bps[p]]_vars

\* C9 witness: CancelAll or Destroy ran with callbacks outstanding, one of
\* them held by the operation starter.
C9_Witness ==
  /\ lastOp.op \in {"CancelAll", "Destroy"}
  /\ Cardinality(LiveHandles) >= 2
  /\ pending # {}

\* C10: for every outstanding callback and result code, the operation starter
\* calling the pair ToPP made (its function on its context pointer) leaves
\* the state, and the delivery, that Run on the callback leaves.
C10_ToPPEquivalentToRun ==
  \A h \in LiveHandles, r \in Results :
    PP_RunCompletionCallback(ToPP(h), r) = CompletionCallback_Run(h, r)

\* C10 witness: the operation starter has completed an operation through a
\* pair while further callbacks are outstanding.
C10_Witness ==
  /\ lastOp.op = "Complete"
  /\ LiveHandles # {}
  /\ handles[lastOp.h].state = "freed"
\* C11: ToPP on a null callback answers the reserved block-until-complete
\* pair, which is the pair of no callback, and the call changes nothing: not
\* the factory, not a BackPointer, not a callback, and the operation starter
\* is handed nothing to call later.
C11_NullConvertsToBlock ==
  [][(lastOp'.op = "StartOp" /\ lastOp'.h = NULL) =>
       /\ ToPP(NULL) = PP_BlockUntilComplete
       /\ \A h \in LiveHandles : ToPP(h) # ToPP(NULL)
       /\ fstate' = fstate
       /\ <<object_', back_pointer_', bps', handles', pending', calls'>>
            = <<object_, back_pointer_, bps, handles, pending, calls>>]_vars

\* C11 witness: an operation was started with a null callback while
\* callbacks are outstanding, one of them held by the operation starter.
C11_Witness ==
  /\ lastOp.op = "StartOp"
  /\ lastOp.h = NULL
  /\ LiveHandles # {}
  /\ pending # {}
\* C12: invoking a callback a second time, after it was invoked and
\* destroyed, is fatal: the program stops there, the bound method is not
\* called a second time and no BackPointer is released a second time.
C12_SecondInvokeIsFatal ==
  [][lastOp'.op = "RunAgain" =>
       /\ fstate' = "crashed"
       /\ calls' = calls
       /\ bps' = bps]_vars
\* C13: within one Run the delivery goes in a fixed order. First the
\* BackPointer is resolved, with the callback and its BackPointer untouched;
\* next the bound method is called if an object was resolved, the callback
\* still holding its reference; only then is the reference released and the
\* callback destroyed; and the state Run returns in is that last one.
C13_DeliveryOrder ==
  \A h \in LiveHandles, r \in Results :
    LET t == ThunkSteps(h, r)
        p == handles[h].back_pointer_
    IN  /\ t[1].object = BackPointer_GetObject(p)
        /\ <<t[1].calls, t[1].bps, t[1].handles>> = <<calls, bps, handles>>
        /\ t[2].calls = IF t[1].object # NULL
                          THEN Append(calls, CallOf(h, r)) ELSE calls
        /\ <<t[2].bps, t[2].handles>> = <<bps, handles>>
        /\ t[3].calls = t[2].calls
        /\ t[3].handles[h].state = "freed"
        /\ t[3].bps = BackPointer_Release(bps, p)
        /\ CompletionCallback_Run(h, r) =
             [calls |-> t[3].calls, bps |-> t[3].bps, handles |-> t[3].handles]

\* C13 witness: the caller has run a callback after the factory was
\* destroyed and another callback is outstanding.
C13_Witness ==
  /\ lastOp.op = "Run"
  /\ fstate = "destroyed"
  /\ handles[lastOp.h].state = "freed"
  /\ LiveHandles # {}
\* C14: the result code is passed through unexamined. From one state, two
\* invocations of a callback with any two result codes (an error, zero, a
\* count) leave the same BackPointers and the same callbacks and take the
\* same decision to deliver; they differ at most in the value the bound
\* method receives, which is the code passed in.
C14_ResultCodeUnexamined ==
  \A h \in LiveHandles, r1 \in Results, r2 \in Results :
    LET a == CompletionCallback_Run(h, r1)
        b == CompletionCallback_Run(h, r2)
    IN  /\ a.bps = b.bps
        /\ a.handles = b.handles
        /\ a.handles[h].state = "freed"
        /\ Len(a.calls) = Len(b.calls)
        /\ Len(a.calls) > Len(calls) =>
             /\ a.calls[Len(a.calls)] = CallOf(h, r1)
             /\ b.calls[Len(b.calls)] = CallOf(h, r2)

\* C14 witness: an operation completed with an error code while other
\* callbacks are outstanding.
C14_Witness ==
  /\ lastOp.op = "Complete"
  /\ lastOp.r < 0
  /\ LiveHandles # {}
\* C15: invoking a callback changes no shared state but the reference count
\* of its own BackPointer (freed at zero): the factory's state, owner and
\* current BackPointer, every BackPointer's factory reference, every other
\* BackPointer and every other callback stay as they were, and what every
\* other outstanding callback resolves to is unchanged.
C15_InvokeFrame ==
  [][\A h \in HandleIds :
       (IsInvoke(lastOp'.op) /\ lastOp'.h = h) =>
         LET p == handles[h].back_pointer_
         IN  /\ <<fstate', object_', back_pointer_'>> = <<fstate, object_, back_pointer_>>
             /\ \A q \in TokenIds \ {p} : bps'[q] = bps[q]
             /\ bps'[p].state = "live" => bps'[p].factory_ = bps[p].factory_
             /\ \A g \in HandleIds \ {h} : handles'[g] = handles[g]
             /\ \A g \in LiveHandles \ {h} :
                  BackPointer_GetObject(handles[g].back_pointer_)'
                    = BackPointer_GetObject(handles[g].back_pointer_)]_vars

\* C15 witness: with the factory alive after a CancelAll, an earlier callback
\* was run while a callback minted later is outstanding on the current
\* BackPointer.
C15_Witness ==
  /\ lastOp.op = "Run"
  /\ fstate = "alive"
  /\ Cardinality(TokensBuilt) >= 2
  /\ \E g \in LiveHandles : /\ handles[g].back_pointer_ = back_pointer_
                            /\ lastOp.h[2] < g[2]
\* What holds a BackPointer: the live factory whose current one it is, and
\* every outstanding callback bound to it.
Holders(p) ==
  (IF fstate = "alive" /\ back_pointer_ = p THEN 1 ELSE 0)
    + Cardinality({h \in LiveHandles : handles[h].back_pointer_ = p})

\* C17: every allocated BackPointer's ref_ is 1 if it is the current one of a
\* live factory, else 0, plus the number of outstanding callbacks bound to
\* it; ref_ is never negative; a BackPointer is freed exactly when that count
\* is zero; and none is released again after it was freed.
C17_RefCountIsHolders ==
  \A p \in TokenIds :
    /\ bps[p].ref_ >= 0
    /\ bps[p].state = "live" => (bps[p].ref_ = Holders(p) /\ bps[p].ref_ > 0)
    /\ bps[p].state = "freed" => (bps[p] = FreedBP /\ Holders(p) = 0)
    /\ (bps[p].state # "unalloc" /\ Holders(p) = 0) => bps[p].state = "freed"

\* C17 witness: one BackPointer is held by the factory and a callback,
\* another by a callback only, and a third has been freed.
C17_Witness ==
  /\ fstate = "alive"
  /\ bps[back_pointer_].ref_ = 2
  /\ \E p \in LiveTokens : p # back_pointer_ /\ bps[p].ref_ = 1
  /\ \E p \in TokenIds : bps[p].state = "freed"
\* A BackPointer that resolves to an owner.
Resolves(p) == bps[p].state = "live" /\ BackPointer_GetObject(p) # NULL

\* C18: invalidation is permanent and exclusive. A BackPointer that does not
\* resolve to an owner never resolves to one again, whatever is minted,
\* cancelled or invoked later; CancelAll and destruction leave the old
\* current BackPointer not resolving; and the only BackPointer that can
\* resolve to an owner is the current one of a live factory.
C18_InvalidationPermanent ==
  [][/\ \A p \in TokensBuilt : ~Resolves(p) => ~Resolves(p)'
     /\ lastOp'.op \in {"CancelAll", "Destroy"} =>
          \A p \in TokenIds : p = back_pointer_ => ~Resolves(p)'
     /\ \A p \in TokenIds :
          Resolves(p)' => (fstate' = "alive" /\ back_pointer_' = p)]_vars

\* C18 witness: after a second CancelAll a callback of an earlier generation
\* is outstanding on a BackPointer that is not the current one and does not
\* resolve.
C18_Witness ==
  /\ lastOp.op = "CancelAll"
  /\ Cardinality(TokensBuilt) >= 3
  /\ \E g \in LiveHandles : /\ handles[g].back_pointer_ # back_pointer_
                            /\ ~Resolves(handles[g].back_pointer_)
\* C19: CancelAll right after CancelAll leaves what one CancelAll left, up to
\* the identity of the current BackPointer: the intermediate BackPointer,
\* held by the factory alone, is freed at once; the new current one is a
\* different object with the same contents (one reference, the factory's);
\* the callbacks, and what each outstanding one resolves to (nothing), every
\* other BackPointer and the rest of the state are unchanged.
C19_CancelAllIdempotent ==
  [][(lastOp.op = "CancelAll" /\ lastOp'.op = "CancelAll") =>
       /\ bps[back_pointer_].ref_ = 1
       /\ \A p \in TokenIds : p = back_pointer_ => bps'[p] = FreedBP
       /\ back_pointer_' # back_pointer_
       /\ bps'[back_pointer_'] = bps[back_pointer_]
       /\ bps'[back_pointer_'].ref_ = 1
       /\ \A q \in TokensBuilt \ {back_pointer_} : bps'[q] = bps[q]
       /\ <<fstate', object_', handles', pending', calls'>>
            = <<fstate, object_, handles, pending, calls>>
       /\ \A g \in LiveHandles :
            /\ BackPointer_GetObject(handles[g].back_pointer_) = NULL
            /\ BackPointer_GetObject(handles[g].back_pointer_)' = NULL]_vars

\* C19 witness: CancelAll ran twice with no mint in between: the only
\* callback ever minted is outstanding on the first BackPointer, the second
\* BackPointer is freed, and the third is the current one.
C19_Witness ==
  /\ lastOp.op = "CancelAll"
  /\ Cardinality({h \in HandleIds : handles[h].state # "unalloc"}) = 1
  /\ \E g \in LiveHandles :
       /\ handles[g].back_pointer_ # back_pointer_
       /\ \E p \in TokenIds :
            /\ bps[p].state = "freed"
            /\ handles[g].back_pointer_[2] < p[2]
            /\ p[2] < back_pointer_[2]
  /\ bps[back_pointer_].ref_ = 1

====
